---- MODULE Spec2Model ----
(***************************************************************************)
(* A model of ttsserver/tts_server.py: a FastAPI process that preloads a   *)
(* speech model at import time and serves POST /tts.  Each request is      *)
(* validated into a TTSRequest, a prompt is composed from the emotion      *)
(* table and the text, generate_audio is called with it, the waveform is   *)
(* written as WAV at 24000 Hz into a fresh BytesIO, the buffer is rewound  *)
(* and streamed back as audio/wav.                                         *)
(*                                                                         *)
(* Strings are TLA+ strings (\o is Python's concatenation).  An optional   *)
(* value is a sequence of length 0 or 1.  A waveform is a record: whether  *)
(* it is a numeric array the writer accepts, and its samples in units of   *)
(* 1/32768 of full scale.  A WAV file is the sequence of its header fields *)
(* followed by its PCM samples.  Handlers of distinct requests run on      *)
(* worker threads and interleave at the granularity of the actions below.  *)
(***************************************************************************)
EXTENDS Integers, Sequences, FiniteSets, TLC

VARIABLES
    proc,             \* the process: "starting", "preloaded", "serving", "failed"
    preloads,         \* how many times preload_models() has been invoked
    EMOTION_PROMPTS,  \* the module-level dict (empty until line 25 has run)
    body,             \* body[r]: the JSON body request r arrived with
    req,              \* req[r]: the validated TTSRequest handed to tts
    pc,               \* pc[r]: where request r is in its handling
    prompt,           \* prompt[r]: tts's local `prompt`
    audio,            \* audio[r]: tts's local `audio`
    buffers,          \* buffers[b]: the BytesIO objects, content and position
    response,         \* response[r]: what the client of r has received
    gen,              \* gen[r]: the state of r's generate_audio call
    genArg,           \* genArg[r]: the argument generate_audio was called with
    returned,         \* returned[r]: the waveform generate_audio returned to r
    steps             \* steps[r]: the handler steps taken for r, in order

vars == <<proc, preloads, EMOTION_PROMPTS, body, req, pc, prompt, audio,
          buffers, response, gen, genArg, returned, steps>>

----------------------------------------------------------------------------
(* Bounds and input domains *)

NumRequests == 2

Requests == 1..NumRequests

None == <<>>
Some(v) == <<v>>

Texts == {"", "gg wp"}

Emotions == {"hype", "tense", "calm", "joyful"}

\* A JSON body: either field may be missing.
Bodies == [text : {None} \cup {Some(t) : t \in Texts},
           emotion : {None} \cup {Some(e) : e \in Emotions}]

\* What generate_audio may hand back: two numeric arrays (one with a sample
\* beyond full scale) and one value the WAV writer cannot encode.
Waveforms == { [numeric |-> TRUE,  samples |-> <<0, 16384>>],
               [numeric |-> TRUE,  samples |-> <<40000>>],
               [numeric |-> FALSE, samples |-> <<>>] }

----------------------------------------------------------------------------
(* Module-level definitions of tts_server.py *)

EMOTION_PROMPTS_literal ==
    [hype  |-> "Excited esports commentator voice. High energy. Crowd roaring.",
     tense |-> "Low, tense esports caster voice. Controlled breathing.",
     calm  |-> "Calm analyst voice. Confident and composed."]

EmptyDict == [k \in {} |-> ""]

\* Variant: the schema's default names another entry of the table.
DefaultEmotionCalm == "calm"

DefaultEmotion == "hype"

\* Variant: the schema also demands a non-empty text (min_length=1).
ValidBodyNonEmpty(b) == b.text # None /\ b.text # Some("")

\* text: str has no default, so it is required; nothing constrains its value.
ValidBody(b) == b.text # None

\* class TTSRequest: the validated request, emotion defaulted when missing.
TTSRequest(b) ==
    [text    |-> b.text[1],
     emotion |-> IF b.emotion = None THEN DefaultEmotion ELSE b.emotion[1]]

\* Variant: a miss falls back to the "hype" entry instead of ''.
DictGetHypeFallback(table, emotion) ==
    IF emotion \in DOMAIN table THEN table[emotion] ELSE table["hype"]

\* EMOTION_PROMPTS.get(emotion, '')
DictGet(table, emotion) ==
    IF emotion \in DOMAIN table THEN table[emotion] ELSE ""

\* Variant: the lookup is a setdefault(emotion, ''), which inserts on a miss.
TableAfterSetDefault(table, emotion) ==
    [k \in DOMAIN table \cup {emotion} |->
        IF k \in DOMAIN table THEN table[k] ELSE ""]

\* dict.get never inserts: the table after a lookup is the table before it.
TableAfterLookup(table, emotion) == table

\* Variant: the separating space is left out of the f-string.
ComposePromptNoSpace(table, emotion, text) == DictGet(table, emotion) \o text

\* f"{EMOTION_PROMPTS.get(req.emotion, '')} {req.text}"
ComposePrompt(table, emotion, text) == DictGet(table, emotion) \o " " \o text

SAMPLE_RATE == 24000

PCM_MAX == 32767

\* Conversion of one sample to 16-bit PCM, clipped to the representable range.
ToPcm(s) == IF s > PCM_MAX THEN PCM_MAX
            ELSE IF s < -PCM_MAX - 1 THEN -PCM_MAX - 1 ELSE s

\* sf.write(buffer, audio, rate, format="WAV"): header fields, then samples.
WavWrite(samples, rate) ==
    <<"RIFF", "WAVE", "fmt ", rate, "data", Len(samples)>>
        \o [i \in 1..Len(samples) |-> ToPcm(samples[i])]

\* Variant: one module-level BytesIO is used by every invocation.
BufferShared(r) == 1

\* buffer = io.BytesIO(): every invocation of tts makes its own buffer.
BufferOf(r) == r

\* Variant: the rewind is missing, the position stays after the last byte.
SeekPosAtEnd(content) == Len(content)

\* The BytesIO object that r's invocation of tts holds in `buffer`.
BufferHeldBy(r) == buffers[BufferOf(r)]

\* buffer.seek(0)
SeekPos(content) == 0

\* What iterating a BytesIO yields in total: the bytes from its position on.
ReadRest(buf) == SubSeq(buf.content, buf.pos + 1, Len(buf.content))

Upd(f, r, v) == [f EXCEPT ![r] = v]

ServerError == [status |-> 500, media_type |-> "text/plain", body |-> <<>>]

ValidationError == [status |-> 422, media_type |-> "application/json", body |-> <<>>]

----------------------------------------------------------------------------
(* Initial state: the interpreter is about to import the module. *)

Init ==
    /\ proc = "starting"
    /\ preloads = 0
    /\ EMOTION_PROMPTS = EmptyDict
    /\ body = [r \in Requests |-> None]
    /\ req = [r \in Requests |-> None]
    /\ pc = [r \in Requests |-> "idle"]
    /\ prompt = [r \in Requests |-> None]
    /\ audio = [r \in Requests |-> None]
    /\ buffers = [r \in Requests |-> None]
    /\ response = [r \in Requests |-> None]
    /\ gen = [r \in Requests |-> "none"]
    /\ genArg = [r \in Requests |-> None]
    /\ returned = [r \in Requests |-> None]
    /\ steps = [r \in Requests |-> <<>>]

reqVars == <<body, req, pc, prompt, audio, buffers, response, gen, genArg,
             returned, steps>>

----------------------------------------------------------------------------
(* Startup: lines 17-29 run once, top to bottom, when the module is imported *)

\* preload_models() returns.
preload_models ==
    /\ proc = "starting"
    /\ preloads' = preloads + 1
    /\ proc' = "preloaded"
    /\ UNCHANGED <<EMOTION_PROMPTS, reqVars>>

\* preload_models() raises: the import fails and nothing is ever served.
preload_models_raises ==
    /\ proc = "starting"
    /\ preloads' = preloads + 1
    /\ proc' = "failed"
    /\ UNCHANGED <<EMOTION_PROMPTS, reqVars>>

\* The rest of the module body: TTSRequest, EMOTION_PROMPTS, the route.
define_module ==
    /\ proc = "preloaded"
    /\ EMOTION_PROMPTS' = EMOTION_PROMPTS_literal
    /\ proc' = "serving"
    /\ UNCHANGED <<preloads, reqVars>>

----------------------------------------------------------------------------
(* POST /tts *)

\* A request arrives and its body is validated against TTSRequest.
Receive(r, b) ==
    /\ proc = "serving"
    /\ pc[r] = "idle"
    /\ body' = Upd(body, r, Some(b))
    /\ IF ValidBody(b)
       THEN /\ req' = Upd(req, r, Some(TTSRequest(b)))
            /\ pc' = Upd(pc, r, "handler")
            /\ UNCHANGED response
       ELSE /\ response' = Upd(response, r, Some(ValidationError))
            /\ pc' = Upd(pc, r, "done")
            /\ UNCHANGED req
    /\ UNCHANGED <<proc, preloads, EMOTION_PROMPTS, prompt, audio, buffers,
                   gen, genArg, returned, steps>>

\* line 33
tts_compose(r) ==
    /\ pc[r] = "handler"
    /\ prompt' = Upd(prompt, r,
           Some(ComposePrompt(EMOTION_PROMPTS, req[r][1].emotion, req[r][1].text)))
    /\ EMOTION_PROMPTS' = TableAfterLookup(EMOTION_PROMPTS, req[r][1].emotion)
    /\ steps' = Upd(steps, r, Append(steps[r], "compose"))
    /\ pc' = Upd(pc, r, "composed")
    /\ UNCHANGED <<proc, preloads, body, req, audio, buffers, response, gen,
                   genArg, returned>>

\* line 35: generate_audio(prompt) is entered.
generate_audio_call(r) ==
    /\ pc[r] = "composed"
    /\ gen' = Upd(gen, r, "running")
    /\ genArg' = Upd(genArg, r, prompt[r])
    /\ steps' = Upd(steps, r, Append(steps[r], "generate"))
    /\ pc' = Upd(pc, r, "generating")
    /\ UNCHANGED <<proc, preloads, EMOTION_PROMPTS, body, req, prompt, audio,
                   buffers, response, returned>>

\* line 35: generate_audio returns waveform w, bound to `audio`.
generate_audio_returns(r, w) ==
    /\ pc[r] = "generating"
    /\ gen[r] = "running"
    /\ gen' = Upd(gen, r, "returned")
    /\ returned' = Upd(returned, r, Some(w))
    /\ audio' = Upd(audio, r, Some(w))
    /\ pc' = Upd(pc, r, "generated")
    /\ UNCHANGED <<proc, preloads, EMOTION_PROMPTS, body, req, prompt,
                   buffers, response, genArg, steps>>

\* Variant: the exception is caught and the call is made again.
generate_audio_retried(r) ==
    /\ pc[r] = "generating"
    /\ gen[r] = "running"
    /\ Len(steps[r]) < 6
    /\ steps' = Upd(steps, r, Append(steps[r], "generate"))
    /\ UNCHANGED <<proc, preloads, EMOTION_PROMPTS, body, req, pc, prompt,
                   audio, buffers, response, gen, genArg, returned>>

\* Variant: the exception is swallowed and an empty waveform stands in.
generate_audio_raise_swallowed(r) ==
    /\ pc[r] = "generating"
    /\ gen[r] = "running"
    /\ gen' = Upd(gen, r, "raised")
    /\ audio' = Upd(audio, r, Some([numeric |-> TRUE, samples |-> <<>>]))
    /\ pc' = Upd(pc, r, "generated")
    /\ UNCHANGED <<proc, preloads, EMOTION_PROMPTS, body, req, prompt,
                   buffers, response, genArg, returned, steps>>

\* Variant: a deadline aborts a call that has not returned, as a fault.
generate_audio_raises_or_deadline(r) ==
    /\ pc[r] = "generating"
    /\ gen[r] \in {"running", "hung"}
    /\ gen' = Upd(gen, r, "raised")
    /\ response' = Upd(response, r, Some(ServerError))
    /\ steps' = Upd(steps, r, Append(steps[r], "fault"))
    /\ pc' = Upd(pc, r, "done")
    /\ UNCHANGED <<proc, preloads, EMOTION_PROMPTS, body, req, prompt, audio,
                   buffers, genArg, returned>>

\* line 35: generate_audio raises.  tts has no try/except: the exception
\* leaves the handler and the framework answers 500.
generate_audio_raises(r) ==
    /\ pc[r] = "generating"
    /\ gen[r] = "running"
    /\ gen' = Upd(gen, r, "raised")
    /\ response' = Upd(response, r, Some(ServerError))
    /\ steps' = Upd(steps, r, Append(steps[r], "fault"))
    /\ pc' = Upd(pc, r, "done")
    /\ UNCHANGED <<proc, preloads, EMOTION_PROMPTS, body, req, prompt, audio,
                   buffers, genArg, returned>>

\* line 35: this call of generate_audio is one that will never return.
generate_audio_hangs(r) ==
    /\ pc[r] = "generating"
    /\ gen[r] = "running"
    /\ gen' = Upd(gen, r, "hung")
    /\ UNCHANGED <<proc, preloads, EMOTION_PROMPTS, body, req, pc, prompt,
                   audio, buffers, response, genArg, returned, steps>>

\* lines 37-39: a fresh buffer, the WAV written into it, the rewind.
tts_encode(r) ==
    /\ pc[r] = "generated"
    /\ audio[r][1].numeric
    /\ LET content == WavWrite(audio[r][1].samples, SAMPLE_RATE)
       IN  buffers' = Upd(buffers, BufferOf(r),
                          Some([content |-> content, pos |-> SeekPos(content)]))
    /\ steps' = Upd(steps, r, Append(steps[r], "encode"))
    /\ pc' = Upd(pc, r, "encoded")
    /\ UNCHANGED <<proc, preloads, EMOTION_PROMPTS, body, req, prompt, audio,
                   response, gen, genArg, returned>>

\* lines 37-38: sf.write rejects the value; the exception leaves the handler.
tts_encode_raises(r) ==
    /\ pc[r] = "generated"
    /\ ~audio[r][1].numeric
    /\ buffers' = Upd(buffers, BufferOf(r), Some([content |-> <<>>, pos |-> 0]))
    /\ response' = Upd(response, r, Some(ServerError))
    /\ steps' = Upd(steps, r, Append(Append(steps[r], "encode"), "fault"))
    /\ pc' = Upd(pc, r, "done")
    /\ UNCHANGED <<proc, preloads, EMOTION_PROMPTS, body, req, prompt, audio,
                   gen, genArg, returned>>

\* line 41: StreamingResponse(buffer, media_type="audio/wav"), streamed out.
tts_respond(r) ==
    /\ pc[r] = "encoded"
    /\ LET buf == BufferHeldBy(r)[1]
       IN  /\ response' = Upd(response, r,
                  Some([status |-> 200, media_type |-> "audio/wav",
                        body |-> ReadRest(buf)]))
           /\ buffers' = Upd(buffers, BufferOf(r),
                  Some([buf EXCEPT !.pos = Len(buf.content)]))
    /\ steps' = Upd(steps, r, Append(steps[r], "respond"))
    /\ pc' = Upd(pc, r, "done")
    /\ UNCHANGED <<proc, preloads, EMOTION_PROMPTS, body, req, prompt, audio,
                   gen, genArg, returned>>

----------------------------------------------------------------------------

Next ==
    \/ preload_models
    \/ preload_models_raises
    \/ define_module
    \/ \E r \in Requests, b \in Bodies : Receive(r, b)
    \/ \E r \in Requests : tts_compose(r)
    \/ \E r \in Requests : generate_audio_call(r)
    \/ \E r \in Requests, w \in Waveforms : generate_audio_returns(r, w)
    \/ \E r \in Requests : generate_audio_raises(r)
    \/ \E r \in Requests : generate_audio_hangs(r)
    \/ \E r \in Requests : tts_encode(r)
    \/ \E r \in Requests : tts_encode_raises(r)
    \/ \E r \in Requests : tts_respond(r)

Spec == Init /\ [][Next]_vars

----------------------------------------------------------------------------
(* Properties *)

Recognized == {"hype", "tense", "calm"}

Status(r) == IF response[r] = None THEN 0 ELSE response[r][1].status

Count(seq, x) == Cardinality({i \in 1..Len(seq) : seq[i] = x})

WavRate(bytes) == bytes[4]

WavSamples(bytes) == SubSeq(bytes, 7, Len(bytes))

\* C1: whenever generate_audio has been called for a request whose emotion is
\* "hype", "tense" or "calm", its argument is that emotion's prefix from the
\* table, one space, and the request's text unchanged.
C1_RecognizedPrompt ==
    \A r \in Requests :
        (/\ genArg[r] # None
         /\ body[r][1].emotion # None
         /\ body[r][1].emotion[1] \in Recognized)
        => genArg[r][1] = EMOTION_PROMPTS_literal[body[r][1].emotion[1]]
                              \o " " \o body[r][1].text[1]

C1_Witness ==
    \E r \in Requests :
        /\ genArg[r] # None
        /\ body[r][1].emotion = Some("tense")
        /\ body[r][1].text = Some("gg wp")

\* C2: a request whose emotion is no key of the table is not failed by the
\* lookup: the handler composes " " \o text, calls generate_audio with exactly
\* that, and the request ends with an error only if generation or encoding
\* faulted, never with a validation error.
C2_UnrecognizedPrompt ==
    \A r \in Requests :
        (/\ body[r] # None
         /\ body[r][1].text # None
         /\ body[r][1].emotion # None
         /\ body[r][1].emotion[1] \notin Recognized)
        => /\ Status(r) # 422
           /\ steps[r] # <<>> => prompt[r] = Some(" " \o body[r][1].text[1])
           /\ genArg[r] # None => genArg[r] = Some(" " \o body[r][1].text[1])
           /\ pc[r] = "done" => genArg[r] # None
           /\ Status(r) = 500 =>
                  \/ gen[r] = "raised"
                  \/ (returned[r] # None /\ ~returned[r][1].numeric)

C2_Witness ==
    \E r \in Requests :
        /\ body[r] # None
        /\ body[r][1].emotion = Some("joyful")
        /\ body[r][1].text = Some("gg wp")
        /\ genArg[r] = Some(" gg wp")
        /\ Status(r) = 200

\* C3: a request without an emotion field is handled as one with emotion
\* "hype": generate_audio is called with the "hype" prefix, a space, the text.
C3_DefaultEmotion ==
    \A r \in Requests :
        (body[r] # None /\ body[r][1].text # None /\ body[r][1].emotion = None)
        => /\ pc[r] # "idle" => req[r] = Some([text |-> body[r][1].text[1],
                                               emotion |-> "hype"])
           /\ genArg[r] # None =>
                  genArg[r][1] = EMOTION_PROMPTS_literal["hype"] \o " "
                                     \o body[r][1].text[1]

C3_Witness ==
    \E r \in Requests :
        /\ body[r] # None
        /\ body[r][1].emotion = None
        /\ body[r][1].text = Some("gg wp")
        /\ genArg[r] # None

\* C4: a request with an empty text passes validation and reaches
\* generate_audio, whose argument is the selected prefix followed by one
\* space (a lone space when the emotion is not in the table).
C4_EmptyText ==
    \A r \in Requests :
        (body[r] # None /\ body[r][1].text = Some(""))
        => /\ Status(r) # 422
           /\ req[r] # None
           /\ pc[r] = "done" => genArg[r] # None
           /\ genArg[r] # None =>
                  genArg[r][1] =
                      IF req[r][1].emotion \in Recognized
                      THEN EMOTION_PROMPTS_literal[req[r][1].emotion] \o " "
                      ELSE " "

C4_Witness ==
    /\ \E r \in Requests :
           /\ body[r] # None
           /\ body[r][1].text = Some("")
           /\ body[r][1].emotion = Some("calm")
           /\ genArg[r] = Some("Calm analyst voice. Confident and composed. ")
    /\ \E r \in Requests :
           /\ body[r] # None
           /\ body[r][1].text = Some("")
           /\ body[r][1].emotion = Some("joyful")
           /\ genArg[r] = Some(" ")

\* C5: a request whose generate_audio call raised has ended with a 500
\* response and an empty body, nothing was encoded for it and no buffer holds
\* audio for it, and the process keeps serving: a request that has not arrived
\* yet can still be received.
C5_GenerationFault ==
    \A r \in Requests :
        gen[r] = "raised"
        => /\ pc[r] = "done"
           /\ response[r] = Some(ServerError)
           /\ response[r][1].media_type # "audio/wav"
           /\ response[r][1].body = <<>>
           /\ Count(steps[r], "encode") = 0
           /\ audio[r] = None
           /\ BufferHeldBy(r) = None
           /\ proc = "serving"
           /\ \A q \in Requests : pc[q] = "idle" =>
                  ENABLED (\E b \in Bodies : Receive(q, b))

C5_Witness ==
    \E r, q \in Requests :
        /\ gen[r] = "raised"
        /\ Status(r) = 500
        /\ Status(q) = 200
        /\ Len(response[q][1].body) > 6

\* C6: a request whose generation returned a waveform the writer accepts, once
\* done, has a 200 response of media type audio/wav whose body is the whole
\* buffer from its first byte: a WAV file of rate 24000 holding the PCM
\* samples of the waveform generate_audio returned to that request.
C6_SuccessResponse ==
    \A r \in Requests :
        /\ (pc[r] = "done" /\ returned[r] # None /\ returned[r][1].numeric)
               => Status(r) = 200
        /\ Status(r) = 200
               => /\ returned[r] # None
                  /\ response[r][1].media_type = "audio/wav"
                  /\ response[r][1].body = BufferHeldBy(r)[1].content
                  /\ Len(response[r][1].body) >= 6
                  /\ WavRate(response[r][1].body) = 24000
                  /\ WavSamples(response[r][1].body) =
                         [i \in 1..Len(returned[r][1].samples) |->
                              ToPcm(returned[r][1].samples[i])]

C6_Witness ==
    \E r \in Requests :
        /\ Status(r) = 200
        /\ returned[r][1].samples = <<0, 16384>>
        /\ response[r][1].body = <<"RIFF", "WAVE", "fmt ", 24000, "data", 2, 0, 16384>>

HappyPath == <<"compose", "generate", "encode", "respond">>

AllowedSteps ==
    {SubSeq(HappyPath, 1, n) : n \in 0..4}
        \cup {<<"compose", "generate", "fault">>,
              <<"compose", "generate", "encode", "fault">>}

\* C7: the steps taken for a request are always an initial part of compose,
\* generate, encode, respond, possibly cut short by a fault after generate or
\* after encode; in particular generate_audio is invoked at most once per
\* request, and a finished request has invoked it exactly once.
C7_StepOrder ==
    \A r \in Requests :
        /\ steps[r] \in AllowedSteps
        /\ Count(steps[r], "generate") <= 1
        /\ Count(steps[r], "generate") = 1 <=> genArg[r] # None
        /\ (pc[r] = "done" /\ Status(r) # 422) => Count(steps[r], "generate") = 1
        /\ Status(r) = 200 <=> steps[r] = HappyPath
        /\ gen[r] = "raised" => steps[r] = <<"compose", "generate", "fault">>

C7_Witness ==
    /\ \E r \in Requests : steps[r] = HappyPath
    /\ \E r \in Requests : steps[r] = <<"compose", "generate", "fault">>

\* C8: once a request's generate_audio call is one that never returns, the
\* request has no response and never gets one: it stays in the call.
C8_HungNeverAnswered ==
    [][\A r \in Requests :
          /\ gen'[r] = "hung" => (response'[r] = None /\ pc'[r] = "generating")
          /\ gen[r] = "hung" => gen'[r] = "hung"]_vars

C8_Witness ==
    \E r, q \in Requests :
        /\ gen[r] = "hung"
        /\ response[r] = None
        /\ Status(q) = 200

\* C9: under any interleaving, what a request computes and returns comes from
\* its own text, emotion and generation result: its prompt is composed from
\* its own fields, its buffer holds the encoding of its own waveform, and its
\* response body is never the encoding of a different waveform returned to
\* another request.
C9_Isolation ==
    \A r \in Requests :
        /\ prompt[r] # None =>
               prompt[r][1] =
                   (IF req[r][1].emotion \in Recognized
                    THEN EMOTION_PROMPTS_literal[req[r][1].emotion] ELSE "")
                       \o " " \o body[r][1].text[1]
        /\ genArg[r] # None => genArg[r] = prompt[r]
        /\ audio[r] # None => audio[r] = returned[r]
        /\ pc[r] = "encoded" =>
               BufferHeldBy(r) =
                   Some([content |-> WavWrite(returned[r][1].samples, 24000),
                         pos |-> 0])
        /\ Status(r) = 200 =>
               /\ response[r][1].body = WavWrite(returned[r][1].samples, 24000)
               /\ \A q \in Requests \ {r} :
                      (returned[q] # None /\ returned[q] # returned[r])
                      => response[r][1].body # WavWrite(returned[q][1].samples, 24000)

C9_Witness ==
    \E r, q \in Requests :
        /\ Status(r) = 200
        /\ Status(q) = 200
        /\ body[r][1].text # body[q][1].text
        /\ req[r][1].emotion # req[q][1].emotion
        /\ returned[r][1].samples = <<0, 16384>>
        /\ returned[q][1].samples = <<40000>>

\* C10: preload_models is invoked at most once, and exactly once before any
\* request is received; while the process serves, whatever requests have been
\* handled, the emotion table has exactly the keys "hype", "tense", "calm"
\* with the prefixes it was defined with.
C10_ProcessState ==
    /\ preloads <= 1
    /\ (\E r \in Requests : pc[r] # "idle") => (preloads = 1 /\ proc = "serving")
    /\ proc = "serving" =>
           /\ preloads = 1
           /\ DOMAIN EMOTION_PROMPTS = {"hype", "tense", "calm"}
           /\ EMOTION_PROMPTS = EMOTION_PROMPTS_literal

C10_Witness ==
    /\ proc = "serving"
    /\ \E r, q \in Requests :
           /\ body[r] # None
           /\ body[r][1].emotion = Some("joyful")
           /\ Status(r) = 200
           /\ Status(q) = 500

====
